---- MODULE Spec2Model ----
(***************************************************************************)
(* Customer domain core of omnipos-customer-service: the customers table   *)
(* (migration), the pgRepository statements, the customerUseCase           *)
(* operations called by concurrent gRPC handler goroutines, and the Kafka  *)
(* CustomerListener loop.  Every SQL statement is one atomic step; the Go  *)
(* code between two statements of one call belongs to the step of the      *)
(* statement that follows it.                                              *)
(***************************************************************************)
EXTENDS Integers, Sequences, FiniteSets, TLC

\* ---------------------------------------------------------------- bounds
\* Largest value the wall clock reaches.
MaxTime == 1
\* Number of external events (a request, a message or a read error on the
\* topic, the cancellation) that arrive in one behaviour.
MaxEvents == 2

\* ------------------------------------------------------ program constants
\* LoyaltyPoints int32 / loyalty_points INTEGER: 32-bit two's complement.
MaxInt32 == 2147483647
MinInt32 == (-2147483647) - 1
\* pageSize = 10 when the caller's page size is < 1
DefaultPageSize == 10

\* ------------------------------------------------------------ identifiers
\* uuid.UUID values.  NilUUID is uuid.Nil.
NilUUID == "nil"
CustomerUUIDs == {"u1", "u2", "u3"}
MerchantUUIDs == {"m1", "m2"}

\* Textual forms accepted by uuid.Parse, with the value each one denotes:
\* the canonical lower-case form and the upper-case form of the same UUID.
UUIDForms ==
    ("u1" :> "u1") @@ ("U1" :> "u1") @@ ("u2" :> "u2") @@
    ("m1" :> "m1") @@ ("M1" :> "m1") @@ ("m2" :> "m2")

\* uuid.Parse: <<ok, value>>.
ParseUUID(s) ==
    IF s \in DOMAIN UUIDForms THEN [ok |-> TRUE, id |-> UUIDForms[s]]
    ELSE [ok |-> FALSE, id |-> NilUUID]

\* --------------------------------------------------------------- text
\* Strings are sequences of one-character strings.
Lower(c) ==
    CASE c = "A" -> "a"
      [] c = "B" -> "b"
      [] c = "N" -> "n"
      [] c = "O" -> "o"
      [] OTHER -> c

RECURSIVE Like(_, _)
\* PostgreSQL ILIKE: % matches any run of characters, _ any one character,
\* every other character itself, letters compared without case.
Like(s, p) ==
    IF p = <<>> THEN s = <<>>
    ELSE IF Head(p) = "%"
         THEN Like(s, Tail(p)) \/ (s # <<>> /\ Like(Tail(s), p))
         ELSE /\ s # <<>>
              /\ (Head(p) = "_" \/ Lower(Head(p)) = Lower(Head(s)))
              /\ Like(Tail(s), Tail(p))

\* wildcard := "%" + search + "%"
Wildcard(search) == <<"%">> \o search \o <<"%">>

\* ------------------------------------------------------------ the clock
\* One time.Now() reading taken when the clock showed n: the clock may have
\* advanced by the time of the reading.
Readings(n) == {t \in n..(n + 1) : t <= MaxTime}

\* ------------------------------------------------------------- inputs
\* Profile fields (name, phone, email, address) a caller supplies.
Profiles ==
    { [name |-> <<"A", "n">>, phone |-> <<"0", "8">>, email |-> "", address |-> ""],
      [name |-> <<"a", "b">>, phone |-> <<"0", "9">>, email |-> "b@x.io", address |-> "Jl. 1"] }

\* Customer id strings of requests and events.
IdTexts == {"u1", "u2", "zz"}
\* Merchant id strings of ListCustomers.
MerchantTexts == {"M1", "m2", "zz"}
\* page, page_size and search of ListCustomersRequest.
PageArgs == {0, 2}
PageSizeArgs == {0, 1}
SearchArgs == {<<>>, <<"N">>, <<"9">>, <<"_">>}
\* req.Points of the AddLoyaltyPoints RPC (int32).
PointsArgs == {-5, MaxInt32}
\* LoyaltyPoints a caller may put into a Customer input.
InputBalances == {0, 7}

\* ------------------------------------------------------------ the state
Handlers == {"h1", "h2"}
Listener == "listener"
Procs == Handlers \cup {Listener}

VARIABLES
    customers,   \* the customers table: a set of rows
    now,         \* the wall clock
    issued,      \* UUIDs uuid.New() has returned or the table has held
    pc,          \* pc[p]: where goroutine p stands
    loc,         \* loc[p]: the locals and the return value of p's call
    events,      \* external events that have arrived
    credited,    \* credited[id]: the balance the row with that id had when
                 \* the service started (0 if inserted since) plus the
                 \* increments committed on it since
    cancelled,   \* ctx.Done() of the listener's context is closed
    cur,         \* the message the listener read last
    lst          \* what the listener did for cur, and its counters

db == <<customers, now, issued, credited>>
vars == <<customers, now, issued, pc, loc, events, credited, cancelled, cur, lst>>

\* model.Customer zero value.
ZeroCustomer ==
    [id |-> NilUUID, merchant_id |-> NilUUID, name |-> <<>>, phone |-> <<>>,
     email |-> "", address |-> "", loyalty_points |-> 0,
     created_at |-> 0, updated_at |-> 0]

ZeroProfile == [name |-> <<>>, phone |-> <<>>, email |-> "", address |-> ""]

\* Locals and return value of a goroutine that is in no call.
\*   op       the use-case operation
\*   id       the UUID the call is about (CreateCustomer: input.ID)
\*   pts      the points of AddLoyaltyPoints
\*   prof     the profile fields of UpdateCustomer's input
\*   row      the record loaded (`existing`) and the record returned
\*   applied  the increment statement of this call changed a row
\*   raced    UpdateCustomer persisted while the stored balance was no
\*            longer the one it had loaded
\*   search   the search string of ListCustomers (id is its merchant)
\*   page, pageSize   the page and pageSize ListCustomers was called with
\*   rows, total   the page and the count of ListCustomers
\*   ok, err, points   what the call returned, once it has
NoCall ==
    [op |-> "none", id |-> NilUUID, pts |-> 0, prof |-> ZeroProfile,
     row |-> ZeroCustomer, applied |-> FALSE, raced |-> FALSE,
     search |-> <<>>, page |-> 0, pageSize |-> 0,
     rows |-> <<>>, total |-> 0,
     ok |-> FALSE, err |-> "", points |-> 0]

\* ------------------------------------------------- pgRepository statements
HasId(tbl, id) == \E r \in tbl : r.id = id
RowOf(tbl, id) == CHOOSE r \in tbl : r.id = id

\* Mutant: the table without UNIQUE (merchant_id, phone).
ConstraintError_NoUnique(others, c) ==
    IF \E r \in others : r.id = c.id THEN "Conflict" ELSE ""

\* The table's constraints on a row that is about to be written next to the
\* rows `others`: PRIMARY KEY (id), UNIQUE (merchant_id, phone).
ConstraintError(others, c) ==
    IF \E r \in others : r.id = c.id THEN "Conflict"
    ELSE IF \E r \in others : r.merchant_id = c.merchant_id /\ r.phone = c.phone
         THEN "Conflict"
    ELSE ""

\* INSERT INTO customers (...) VALUES (...)
RepoCreate(tbl, c) ==
    LET e == ConstraintError(tbl, c)
    IN  IF e # "" THEN [err |-> e, tbl |-> tbl]
        ELSE [err |-> "", tbl |-> tbl \cup {c}]

\* SELECT * FROM customers WHERE id = $1; sql.ErrNoRows is (nil, nil).
RepoGetByID(tbl, id) ==
    IF HasId(tbl, id) THEN [found |-> TRUE, row |-> RowOf(tbl, id)]
    ELSE [found |-> FALSE, row |-> ZeroCustomer]

\* Mutant: a full-record UPDATE that also writes merchant_id, loyalty_points
\* and created_at from the record the caller holds.
RepoUpdate_FullRecord(tbl, c, t) ==
    IF ~HasId(tbl, c.id) THEN [err |-> "", tbl |-> tbl]
    ELSE LET old == RowOf(tbl, c.id)
             new == [c EXCEPT !.updated_at = t]
             e == ConstraintError(tbl \ {old}, new)
         IN  IF e # "" THEN [err |-> e, tbl |-> tbl]
             ELSE [err |-> "", tbl |-> (tbl \ {old}) \cup {new}]

\* UPDATE customers SET name, phone, email, address, updated_at WHERE id = :id
RepoUpdate(tbl, c, t) ==
    IF ~HasId(tbl, c.id) THEN [err |-> "", tbl |-> tbl]
    ELSE LET old == RowOf(tbl, c.id)
             new == [old EXCEPT !.name = c.name, !.phone = c.phone,
                                !.email = c.email, !.address = c.address,
                                !.updated_at = t]
             e == ConstraintError(tbl \ {old}, new)
         IN  IF e # "" THEN [err |-> e, tbl |-> tbl]
             ELSE [err |-> "", tbl |-> (tbl \ {old}) \cup {new}]

\* DELETE FROM customers WHERE id = $1
RepoDelete(tbl, id) == {r \in tbl : r.id # id}

\* Mutant: the search condition without its parentheses,
\* merchant_id = $1 AND name ILIKE $2 OR phone ILIKE $3.
Matching_NoParentheses(tbl, mid, search) ==
    {r \in tbl :
        \/ r.merchant_id = mid /\ (search = <<>> \/ Like(r.name, Wildcard(search)))
        \/ search # <<>> /\ Like(r.phone, Wildcard(search))}

\* WHERE merchant_id = $1 [AND (name ILIKE $2 OR phone ILIKE $3)], with
\* $2 = $3 = wildcard; the AND (...) part only when search != "".
Matching(tbl, mid, search) ==
    {r \in tbl :
        /\ r.merchant_id = mid
        /\ \/ search = <<>>
           \/ Like(r.name, Wildcard(search))
           \/ Like(r.phone, Wildcard(search))}

RECURSIVE Orders(_)
\* All the sequences that list the rows of S once each.
Orders(S) ==
    IF S = {} THEN {<<>>}
    ELSE UNION {{<<x>> \o s : s \in Orders(S \ {x})} : x \in S}

\* ORDER BY created_at DESC: rows of equal created_at come in any order.
Descending(s) ==
    \A i \in 1..Len(s) : \A j \in 1..Len(s) :
        i < j => s[i].created_at >= s[j].created_at

Min(a, b) == IF a < b THEN a ELSE b

\* SELECT * ... ORDER BY created_at DESC LIMIT pageSize OFFSET offset: the
\* results the statement may give.
RepoListPage(tbl, mid, pageSize, offset, search) ==
    {SubSeq(s, offset + 1, Min(offset + pageSize, Len(s))) :
        s \in {o \in Orders(Matching(tbl, mid, search)) : Descending(o)}}

\* SELECT COUNT(*) ... (the same WHERE clause)
RepoListCount(tbl, mid, search) == Cardinality(Matching(tbl, mid, search))

\* loyalty_points + $1 leaves the INTEGER range: PostgreSQL raises
\* "integer out of range" and the statement changes nothing.
OutOfInt32(a, b) ==
    \/ b > 0 /\ a > MaxInt32 - b
    \/ b < 0 /\ a < MinInt32 - b

\* Mutant: SET loyalty_points = $1 (the balance is overwritten, not raised).
RepoAddLoyaltyPoints_Overwrite(tbl, id, points, t) ==
    IF ~HasId(tbl, id) THEN [err |-> "", tbl |-> tbl, n |-> 0]
    ELSE LET old == RowOf(tbl, id)
         IN  IF OutOfInt32(old.loyalty_points, points)
             THEN [err |-> "StorageError", tbl |-> tbl, n |-> 0]
             ELSE [err |-> "",
                   tbl |-> (tbl \ {old}) \cup
                           {[old EXCEPT !.loyalty_points = points,
                                        !.updated_at = t]},
                   n |-> 1]

\* UPDATE customers SET loyalty_points = loyalty_points + $1, updated_at = $2
\* WHERE id = $3
RepoAddLoyaltyPoints(tbl, id, points, t) ==
    IF ~HasId(tbl, id) THEN [err |-> "", tbl |-> tbl, n |-> 0]
    ELSE LET old == RowOf(tbl, id)
         IN  IF OutOfInt32(old.loyalty_points, points)
             THEN [err |-> "StorageError", tbl |-> tbl, n |-> 0]
             ELSE [err |-> "",
                   tbl |-> (tbl \ {old}) \cup
                           {[old EXCEPT !.loyalty_points = @ + points,
                                        !.updated_at = t]},
                   n |-> 1]

\* ------------------------------------------------- events on the topic
\* total_amount (float64) is written as hundreds and units: 100 * h + u with
\* u in 0..99, so that amounts beyond the int32 range can be written.
Amount(h, u) == [h |-> h, u |-> u]

\* A decoded OrderCreatedEvent; nil is Payload.CustomerID == nil.
Event(type, nil, cid, total) ==
    [decodes |-> TRUE, event_type |-> type, nil |-> nil, customer_id |-> cid,
     total_amount |-> total]

\* A payload json.Unmarshal rejects.
Undecodable ==
    [decodes |-> FALSE, event_type |-> "", nil |-> TRUE, customer_id |-> "",
     total_amount |-> Amount(0, 0)]

NoMsg == [Undecodable EXCEPT !.event_type = "<none>"]

\* Message values the topic carries.
Messages ==
    { Undecodable,
      Event("OrderCancelled", FALSE, "u1", Amount(0, 25)),
      Event("OrderCreated", TRUE, "", Amount(0, 25)),
      Event("OrderCreated", FALSE, "", Amount(0, 25)),
      Event("OrderCreated", FALSE, "u1", Amount(0, 25)),
      Event("OrderCreated", FALSE, "U1", Amount(0, 9)),
      Event("OrderCreated", FALSE, "zz", Amount(-1, 75)),
      Event("OrderCreated", FALSE, "u1", Amount(300000000, 0)) }

\* math.Floor(total / 10.0) = 10 * h + u \div 10, as quotient q and the
\* flag that it is an int32 value.
FloorTenth(a) ==
    LET q == a.u \div 10
        hi == MaxInt32 \div 10
        lo == MinInt32 \div 10
        fits == /\ (a.h < hi \/ (a.h = hi /\ q <= MaxInt32 % 10))
                /\ (a.h > lo \/ (a.h = lo /\ q >= MinInt32 % 10))
    IN  [fits |-> fits, positive |-> (a.h > 0 \/ (a.h = 0 /\ q > 0)),
         v |-> IF fits THEN 10 * a.h + q ELSE 0]

\* int32(math.Floor(total / 10.0)): the value when it is an int32; otherwise
\* the conversion's result is implementation-dependent (0x80000000 on amd64,
\* the nearest bound on arm64).
PointsOf(a) ==
    LET f == FloorTenth(a)
    IN  IF f.fits THEN {f.v} ELSE {MinInt32, MaxInt32}

\* ------------------------------------------------------- customerUseCase
\* What a storage call may do besides running its statement: fail on the
\* connection, leaving the table as it is.
Failed(tbl) == [err |-> "StorageError", tbl |-> tbl, n |-> 0]

\* return nil / 0, err
ReturnErr(l, e) == [l EXCEPT !.ok = FALSE, !.err = e,
                             !.row = ZeroCustomer, !.points = 0,
                             !.rows = <<>>, !.total = 0]

\* The listener handles its message again when the call has returned.
AfterCall_Retry(p) == IF p = Listener THEN "process" ELSE "returned"

\* Where a goroutine stands when its use-case call has returned.
AfterCall(p) == IF p = Listener THEN "select" ELSE "returned"

\* A handler goroutine enters a use-case operation.
StartCall(p) ==
    /\ p \in Handlers
    /\ pc[p] = "idle"
    /\ events < MaxEvents
    /\ events' = events + 1
    /\ UNCHANGED <<cancelled, cur, lst>>

\* uuid.New(): a UUID never seen before (the bounded pool is handed out in
\* order; none is left when the pool is used up).
NewUUID(seen) ==
    IF "u1" \notin seen THEN {"u1"}
    ELSE IF "u2" \notin seen THEN {"u2"}
    ELSE IF "u3" \notin seen THEN {"u3"}
    ELSE {}

\* CreateCustomer: uuid.New() when input.ID is uuid.Nil, LoyaltyPoints = 0,
\* CreatedAt = time.Now(), UpdatedAt = time.Now(), repo.Create.
CreateCustomer(p) ==
    /\ StartCall(p)
    /\ \E inId \in {NilUUID, "u1"}, m \in MerchantUUIDs, pr \in Profiles,
          bal \in InputBalances, fail \in BOOLEAN :
       \E id \in (IF inId = NilUUID THEN NewUUID(issued) ELSE {inId}) :
       \E t1 \in Readings(now) : \E t2 \in Readings(t1) :
          LET input == [id |-> inId, merchant_id |-> m, name |-> pr.name,
                        phone |-> pr.phone, email |-> pr.email,
                        address |-> pr.address, loyalty_points |-> bal,
                        created_at |-> 0, updated_at |-> 0]
              c == [input EXCEPT !.id = id, !.loyalty_points = 0,
                                 !.created_at = t1, !.updated_at = t2]
              r == IF fail THEN Failed(customers) ELSE RepoCreate(customers, c)
              l == [NoCall EXCEPT !.op = "create", !.id = inId]
          IN  /\ customers' = r.tbl
              /\ now' = t2
              /\ issued' = issued \cup {id}
              /\ credited' = IF r.err = "" THEN [credited EXCEPT ![id] = 0]
                             ELSE credited
              /\ loc' = [loc EXCEPT ![p] =
                    IF r.err # "" THEN ReturnErr(l, r.err)
                    ELSE [l EXCEPT !.row = c, !.ok = TRUE]]
    /\ pc' = [pc EXCEPT ![p] = "returned"]

\* UpdateCustomer up to and including repo.GetByID(input.ID).
UpdateLoad(p) ==
    /\ StartCall(p)
    /\ \E id \in {"u1", "u2"}, m \in {NilUUID, "m2"}, pr \in Profiles,
          bal \in InputBalances, fail \in BOOLEAN :
          LET input == [id |-> id, merchant_id |-> m, name |-> pr.name,
                        phone |-> pr.phone, email |-> pr.email,
                        address |-> pr.address, loyalty_points |-> bal,
                        created_at |-> 0, updated_at |-> 0]
              g == RepoGetByID(customers, input.id)
              l == [NoCall EXCEPT !.op = "update", !.id = input.id,
                                  !.prof = [name |-> input.name,
                                            phone |-> input.phone,
                                            email |-> input.email,
                                            address |-> input.address]]
          IN  IF fail \/ ~g.found
              THEN /\ loc' = [loc EXCEPT ![p] = ReturnErr(l,
                                 IF fail THEN "StorageError" ELSE "customer not found")]
                   /\ pc' = [pc EXCEPT ![p] = "returned"]
              ELSE /\ loc' = [loc EXCEPT ![p] = [l EXCEPT !.row = g.row]]
                   /\ pc' = [pc EXCEPT ![p] = "update_persist"]
    /\ UNCHANGED db

\* UpdateCustomer from "Update fields" on: the four profile fields and
\* UpdatedAt = time.Now() on the loaded record, then repo.Update, which sets
\* UpdatedAt = time.Now() again and runs the statement.
UpdatePersist(p) ==
    /\ pc[p] = "update_persist"
    /\ \E fail \in BOOLEAN :
       \E t1 \in Readings(now) : \E t2 \in Readings(t1) :
          LET l == loc[p]
              existing == [l.row EXCEPT !.name = l.prof.name,
                                        !.phone = l.prof.phone,
                                        !.email = l.prof.email,
                                        !.address = l.prof.address,
                                        !.updated_at = t2]
              r == IF fail THEN Failed(customers)
                   ELSE RepoUpdate(customers, existing, t2)
          IN  /\ customers' = r.tbl
              /\ now' = t2
              /\ loc' = [loc EXCEPT ![p] =
                    IF r.err # "" THEN ReturnErr(l, r.err)
                    ELSE [l EXCEPT !.row = existing, !.ok = TRUE,
                                   !.raced =
                                      /\ HasId(customers, l.id)
                                      /\ RowOf(customers, l.id).loyalty_points
                                            # l.row.loyalty_points]]
    /\ pc' = [pc EXCEPT ![p] = "returned"]
    /\ UNCHANGED <<issued, events, credited, cancelled, cur, lst>>

\* DeleteCustomer: uuid.Parse, repo.Delete.
DeleteCustomer(p) ==
    /\ StartCall(p)
    /\ \E idText \in IdTexts, fail \in BOOLEAN :
          LET u == ParseUUID(idText)
              l == [NoCall EXCEPT !.op = "delete", !.id = u.id]
          IN  IF ~u.ok \/ fail
              THEN /\ loc' = [loc EXCEPT ![p] = ReturnErr(l,
                                 IF ~u.ok THEN "invalid customer id" ELSE "StorageError")]
                   /\ UNCHANGED customers
              ELSE /\ customers' = RepoDelete(customers, u.id)
                   /\ loc' = [loc EXCEPT ![p] = [l EXCEPT !.ok = TRUE]]
    /\ pc' = [pc EXCEPT ![p] = "returned"]
    /\ UNCHANGED <<now, issued, credited>>

\* if page < 1 { page = 1 }
ClampPage(page) == IF page < 1 THEN 1 ELSE page

\* A page size below 1 becomes 1 instead of the default.
ClampPageSize_One(pageSize) == IF pageSize < 1 THEN 1 ELSE pageSize

\* if pageSize < 1 { pageSize = 10 }
ClampPageSize(pageSize) == IF pageSize < 1 THEN DefaultPageSize ELSE pageSize

\* The pages ListCustomers(merchant, page, pageSize, search) may get from
\* repo.List on table tbl: the clamps, then offset := (page - 1) * pageSize
\* and the SELECT.
ListPages(tbl, mid, pageArg, pageSizeArg, search) ==
    LET page == ClampPage(pageArg)
        pageSize == ClampPageSize(pageSizeArg)
        offset == (page - 1) * pageSize
    IN  RepoListPage(tbl, mid, pageSize, offset, search)

\* ListCustomers up to and including repo.List's SELECT of the page:
\* uuid.Parse, the clamps of page and pageSize, the SELECT.
ListSelect(p) ==
    /\ StartCall(p)
    /\ \E mText \in MerchantTexts, pageArg \in PageArgs,
          pageSizeArg \in PageSizeArgs, search \in SearchArgs, fail \in BOOLEAN :
          LET u == ParseUUID(mText)
              l == [NoCall EXCEPT !.op = "list", !.id = u.id, !.search = search,
                                  !.page = pageArg, !.pageSize = pageSizeArg]
          IN  IF ~u.ok \/ fail
              THEN /\ loc' = [loc EXCEPT ![p] = ReturnErr(l,
                                 IF ~u.ok THEN "invalid merchant id" ELSE "StorageError")]
                   /\ pc' = [pc EXCEPT ![p] = "returned"]
              ELSE \E rows \in ListPages(customers, u.id, pageArg, pageSizeArg, search) :
                   /\ loc' = [loc EXCEPT ![p] = [l EXCEPT !.rows = rows]]
                   /\ pc' = [pc EXCEPT ![p] = "list_count"]
    /\ UNCHANGED db

\* repo.List's SELECT COUNT(*), and the return of ListCustomers.
ListCount(p) ==
    /\ pc[p] = "list_count"
    /\ \E fail \in BOOLEAN :
          LET l == loc[p]
          IN  loc' = [loc EXCEPT ![p] =
                  IF fail THEN ReturnErr(l, "StorageError")
                  ELSE [l EXCEPT !.ok = TRUE,
                                 !.total = RepoListCount(customers, l.id, l.search)]]
    /\ pc' = [pc EXCEPT ![p] = "returned"]
    /\ UNCHANGED <<customers, now, issued, events, credited, cancelled, cur, lst>>

\* AddLoyaltyPoints up to and including repo.AddLoyaltyPoints, called by
\* goroutine p with (customerID, points).
AddIncrement(p, idText, points) ==
    LET u == ParseUUID(idText)
        l == [NoCall EXCEPT !.op = "add", !.id = u.id, !.pts = points]
    IN  IF ~u.ok
        THEN /\ loc' = [loc EXCEPT ![p] = ReturnErr(l, "invalid customer id")]
             /\ pc' = [pc EXCEPT ![p] = AfterCall(p)]
             /\ UNCHANGED <<customers, now, credited>>
        ELSE \E fail \in BOOLEAN : \E t \in Readings(now) :
             LET r == IF fail THEN Failed(customers)
                      ELSE RepoAddLoyaltyPoints(customers, u.id, points, t)
             IN  /\ customers' = r.tbl
                 /\ now' = t
                 /\ credited' = IF r.n = 1
                                THEN [credited EXCEPT ![u.id] = @ + points]
                                ELSE credited
                 /\ IF r.err # ""
                    THEN /\ loc' = [loc EXCEPT ![p] = ReturnErr(l, r.err)]
                         /\ pc' = [pc EXCEPT ![p] = AfterCall(p)]
                    ELSE /\ loc' = [loc EXCEPT ![p] = [l EXCEPT !.applied = (r.n = 1)]]
                         /\ pc' = [pc EXCEPT ![p] = "add_reread"]

\* The AddLoyaltyPoints RPC: req.CustomerId and req.Points go to the use case
\* as they are.
HandlerAddLoyaltyPoints(p) ==
    /\ StartCall(p)
    /\ \E idText \in IdTexts, points \in PointsArgs : AddIncrement(p, idText, points)
    /\ UNCHANGED issued

\* Mutant: a failed confirmation read is compensated by taking the points off
\* again.
AddReread_Compensating(p) ==
    /\ pc[p] = "add_reread"
    /\ \E fail \in BOOLEAN :
          LET l == loc[p]
              g == RepoGetByID(customers, l.id)
              ret == IF fail THEN ReturnErr(l, "StorageError")
                     ELSE IF ~g.found
                          THEN ReturnErr(l, "customer not found after update")
                     ELSE [l EXCEPT !.ok = TRUE, !.points = g.row.loyalty_points]
          IN  /\ loc' = [loc EXCEPT ![p] = ret]
              /\ customers' = IF ~ret.ok /\ l.applied
                              THEN RepoAddLoyaltyPoints(customers, l.id, 0 - l.pts, now).tbl
                              ELSE customers
              /\ lst' = IF p = Listener
                        THEN [lst EXCEPT !.log = IF ret.ok THEN "info" ELSE "error"]
                        ELSE lst
    /\ pc' = [pc EXCEPT ![p] = AfterCall(p)]
    /\ cur' = IF p = Listener THEN NoMsg ELSE cur
    /\ UNCHANGED <<now, issued, events, credited, cancelled>>

\* AddLoyaltyPoints from "Fetch updated customer" on: repo.GetByID and return.
\* The listener logs the outcome and goes on with its loop.
AddReread(p) ==
    /\ pc[p] = "add_reread"
    /\ \E fail \in BOOLEAN :
          LET l == loc[p]
              g == RepoGetByID(customers, l.id)
              ret == IF fail THEN ReturnErr(l, "StorageError")
                     ELSE IF ~g.found
                          THEN ReturnErr(l, "customer not found after update")
                     ELSE [l EXCEPT !.ok = TRUE, !.points = g.row.loyalty_points]
          IN  /\ loc' = [loc EXCEPT ![p] = ret]
              /\ lst' = IF p = Listener
                        THEN [lst EXCEPT !.log = IF ret.ok THEN "info" ELSE "error"]
                        ELSE lst
    /\ pc' = [pc EXCEPT ![p] = AfterCall(p)]
    /\ cur' = IF p = Listener THEN NoMsg ELSE cur
    /\ UNCHANGED <<customers, now, issued, events, credited, cancelled>>

\* The RPC answers and its goroutine ends.
HandlerReturn(p) ==
    /\ p \in Handlers
    /\ pc[p] = "returned"
    /\ pc' = [pc EXCEPT ![p] = "idle"]
    /\ loc' = [loc EXCEPT ![p] = NoCall]
    /\ UNCHANGED <<customers, now, issued, events, credited, cancelled, cur, lst>>

\* ------------------------------------------------------ CustomerListener
\* lst: the listener's latest log entry and its counters.
\*   log          level of the entry the latest listener step logged last
\*                ("" when it logged nothing)
\*   reads        messages read so far
\*   invocations  uc.AddLoyaltyPoints calls made so far
\*   lateSleeps   backoff sleeps that ended after cancellation (0..2)
Logged(level) == [lst EXCEPT !.log = level]

\* Mutant: `break` in the ctx.Done() case leaves the select, not the loop.
ListenerSelect_Break ==
    /\ pc[Listener] = "select"
    /\ pc' = [pc EXCEPT ![Listener] = IF cancelled THEN "select" ELSE "reading"]
    /\ loc' = [loc EXCEPT ![Listener] = NoCall]
    /\ lst' = Logged(IF cancelled THEN "info" ELSE "")
    /\ UNCHANGED <<customers, now, issued, events, credited, cancelled, cur>>

\* select { case <-ctx.Done(): return; default: ... }
ListenerSelect ==
    /\ pc[Listener] = "select"
    /\ pc' = [pc EXCEPT ![Listener] = IF cancelled THEN "stopped" ELSE "reading"]
    /\ loc' = [loc EXCEPT ![Listener] = NoCall]
    /\ lst' = Logged(IF cancelled THEN "info" ELSE "")
    /\ UNCHANGED <<customers, now, issued, events, credited, cancelled, cur>>

\* msg, err := l.consumer.ReadMessage(ctx): a message, or an error; once the
\* context is cancelled the read is interrupted and returns the error.
ListenerRead ==
    /\ pc[Listener] = "reading"
    /\ IF cancelled
       THEN /\ pc' = [pc EXCEPT ![Listener] = "read_err"]
            /\ lst' = Logged("")
            /\ UNCHANGED <<cur, events>>
       ELSE /\ events < MaxEvents
            /\ events' = events + 1
            /\ \/ /\ \E m \in Messages : cur' = m
                  /\ lst' = [Logged("") EXCEPT !.reads = @ + 1]
                  /\ pc' = [pc EXCEPT ![Listener] = "process"]
               \/ /\ pc' = [pc EXCEPT ![Listener] = "read_err"]
                  /\ lst' = Logged("")
                  /\ UNCHANGED cur
    /\ UNCHANGED <<customers, now, issued, loc, credited, cancelled>>

\* Mutant: any read error ends the loop.
ListenerReadErr_Return ==
    /\ pc[Listener] = "read_err"
    /\ pc' = [pc EXCEPT ![Listener] = "stopped"]
    /\ lst' = Logged(IF cancelled THEN "" ELSE "error")
    /\ UNCHANGED <<customers, now, issued, loc, events, credited, cancelled, cur>>

\* if err != nil { if ctx.Err() != nil { return }; l.logger.Error(...) ...
ListenerReadErr ==
    /\ pc[Listener] = "read_err"
    /\ IF cancelled
       THEN /\ pc' = [pc EXCEPT ![Listener] = "stopped"]
            /\ lst' = Logged("")
       ELSE /\ pc' = [pc EXCEPT ![Listener] = "backoff"]
            /\ lst' = Logged("error")
    /\ UNCHANGED <<customers, now, issued, loc, events, credited, cancelled, cur>>

\* time.Sleep(1 * time.Second); continue
ListenerBackoff ==
    /\ pc[Listener] = "backoff"
    /\ pc' = [pc EXCEPT ![Listener] = "select"]
    /\ lst' = [Logged("") EXCEPT !.lateSleeps =
                  IF cancelled /\ @ < 2 THEN @ + 1 ELSE @]
    /\ UNCHANGED <<customers, now, issued, loc, events, credited, cancelled, cur>>

\* processMessage up to and including the increment statement of
\* uc.AddLoyaltyPoints; msg is dead once processMessage has returned.
ListenerProcess ==
    /\ pc[Listener] = "process"
    /\ LET skip(level) ==
               /\ pc' = [pc EXCEPT ![Listener] = "select"]
               /\ lst' = Logged(level)
               /\ cur' = NoMsg
               /\ UNCHANGED <<customers, now, credited, loc>>
       IN  IF ~cur.decodes THEN skip("error")
           ELSE IF cur.event_type # "OrderCreated" THEN skip("")
           ELSE IF cur.nil \/ cur.customer_id = "" THEN skip("")
           ELSE \E points \in PointsOf(cur.total_amount) :
                IF points > 0
                THEN /\ AddIncrement(Listener, cur.customer_id, points)
                     /\ lst' = [Logged(IF pc'[Listener] = "select"
                                       THEN "error" ELSE "info")
                                   EXCEPT !.invocations = @ + 1]
                     /\ cur' = IF pc'[Listener] = "select" THEN NoMsg ELSE cur
                ELSE skip("info")
    /\ UNCHANGED <<issued, events, cancelled>>

\* The listener's context is cancelled.
Cancel ==
    /\ ~cancelled
    /\ events < MaxEvents
    /\ events' = events + 1
    /\ cancelled' = TRUE
    /\ UNCHANGED <<customers, now, issued, pc, loc, credited, cur, lst>>

\* ------------------------------------------------------- specification
\* The table as the service finds it when it starts: empty, or holding rows
\* that earlier requests and events left (created by CreateCustomer, the
\* balance of u1 raised by increments).
StoredRow(id, m, name, phone, balance) ==
    [id |-> id, merchant_id |-> m, name |-> name, phone |-> phone,
     email |-> "", address |-> "", loyalty_points |-> balance,
     created_at |-> 0, updated_at |-> 0]

InitialTables ==
    { {},
      { StoredRow("u1", "m1", <<"A", "n">>, <<"0", "8">>, 4),
        StoredRow("u2", "m1", <<"a", "b">>, <<"0", "9">>, 0) },
      { StoredRow("u1", "m1", <<"A", "n">>, <<"0", "8">>, 4),
        StoredRow("u2", "m2", <<"a", "b">>, <<"0", "9">>, 0) } }

Init ==
    /\ customers \in InitialTables
    /\ now = 0
    /\ issued = {r.id : r \in customers}
    /\ pc = [p \in Procs |-> IF p = Listener THEN "select" ELSE "idle"]
    /\ loc = [p \in Procs |-> NoCall]
    /\ events = 0
    /\ credited = [id \in CustomerUUIDs |->
                      IF HasId(customers, id)
                      THEN RowOf(customers, id).loyalty_points ELSE 0]
    /\ cancelled = FALSE
    /\ cur = NoMsg
    /\ lst = [log |-> "", reads |-> 0, invocations |-> 0, lateSleeps |-> 0]

Next ==
    \/ \E p \in Handlers : CreateCustomer(p)
    \/ \E p \in Handlers : ListSelect(p)
    \/ \E p \in Handlers : ListCount(p)
    \/ \E p \in Handlers : UpdateLoad(p)
    \/ \E p \in Handlers : UpdatePersist(p)
    \/ \E p \in Handlers : DeleteCustomer(p)
    \/ \E p \in Handlers : HandlerAddLoyaltyPoints(p)
    \/ \E p \in Procs : AddReread(p)
    \/ \E p \in Handlers : HandlerReturn(p)
    \/ ListenerSelect
    \/ ListenerRead
    \/ ListenerReadErr
    \/ ListenerBackoff
    \/ ListenerProcess
    \/ Cancel

Spec == Init /\ [][Next]_vars

\* The listener goroutine runs whenever it can: a read returns (with the
\* error once the context is cancelled), the sleep ends, storage calls return.
ListenerStep ==
    \/ ListenerSelect
    \/ ListenerRead
    \/ ListenerReadErr
    \/ ListenerBackoff
    \/ ListenerProcess
    \/ AddReread(Listener)

LiveSpec == Spec /\ WF_vars(ListenerStep)

\* ======================================================================
\* Claims
\* ======================================================================

\* C1: every stored balance is the balance the row started with plus the sum
\* of all increments committed on it, whoever issued them (handler
\* goroutines, the listener) and however their steps interleave: no
\* increment is lost.
C1_NoLostIncrement ==
    \A r \in customers : r.loyalty_points = credited[r.id]

\* C1 witness: a handler increment (-5) and a listener increment (+2) on
\* customer u1 (balance 4) have both committed, neither call has returned
\* yet, and the balance is 4 - 5 + 2.
C1_Witness ==
    /\ pc["h1"] = "add_reread" /\ loc["h1"].applied /\ loc["h1"].id = "u1"
    /\ loc["h1"].pts = -5
    /\ pc[Listener] = "add_reread" /\ loc[Listener].applied
    /\ loc[Listener].id = "u1" /\ loc[Listener].pts = 2
    /\ HasId(customers, "u1") /\ RowOf(customers, "u1").loyalty_points = 1

\* C2 (as claimed): every stored balance is non-negative in every reachable
\* state.
C2_BalanceNonNegative ==
    \A r \in customers : r.loyalty_points >= 0

\* C2 failing input: AddLoyaltyPoints(customer_id = "u1", points = -5) on a
\* balance of 4 commits and leaves the balance at -1.

\* Two rows with the same (merchant_id, phone).
SamePair(r1, r2) == r1.merchant_id = r2.merchant_id /\ r1.phone = r2.phone

\* C3: no two stored customers share (merchant_id, phone), and a
\* CreateCustomer or UpdateCustomer that returns Conflict has left the table
\* as it was; the same phone under two merchants is stored.
C3_UniqueMerchantPhone ==
    [][ /\ \A r1 \in customers' : \A r2 \in customers' :
              r1 # r2 => ~SamePair(r1, r2)
        /\ \A p \in Handlers :
              (pc[p] # "returned" /\ pc'[p] = "returned"
                 /\ loc'[p].err = "Conflict")
              => customers' = customers ]_vars

\* C3 witness: an UpdateCustomer that set a customer's phone to one another
\* customer of the same merchant has, was answered Conflict, while the table
\* holds that phone under both merchants.
C3_Witness ==
    \E p \in Handlers :
        /\ pc[p] = "returned" /\ loc[p].op = "update" /\ loc[p].err = "Conflict"
        /\ \E r1 \in customers : \E r2 \in customers :
              /\ r1.phone = r2.phone /\ r1.merchant_id # r2.merchant_id
              /\ r1.phone = loc[p].prof.phone

\* C4: every record of a ListCustomers page has the merchant the query names,
\* and the total counts no more records than that merchant has in the table
\* when the count statement runs.
C4_ListScopedByMerchant ==
    [][ \A p \in Handlers :
          /\ loc'[p].op = "list"
             => \A i \in 1..Len(loc'[p].rows) :
                   loc'[p].rows[i].merchant_id = loc'[p].id
          /\ (pc[p] = "list_count" /\ pc'[p] = "returned")
             => loc'[p].total <=
                   Cardinality({r \in customers : r.merchant_id = loc[p].id}) ]_vars

\* C4 witness: a search of merchant m1 has returned a record while the table
\* holds a record of another merchant that the same search string matches.
C4_Witness ==
    \E p \in Handlers :
        /\ pc[p] = "returned" /\ loc[p].op = "list" /\ loc[p].ok
        /\ loc[p].id = "m1" /\ loc[p].search # <<>>
        /\ Len(loc[p].rows) >= 1 /\ loc[p].total >= 1
        /\ Matching(customers, "m2", loc[p].search) # {}

\* C5: the step that persists an UpdateCustomer leaves loyalty_points,
\* merchant_id and created_at of the target row as they are in the table,
\* also when the balance in the table is no longer the one the call loaded.
C5_UpdateFrame ==
    [][ \A p \in Handlers :
          (pc[p] = "update_persist" /\ pc'[p] = "returned"
             /\ HasId(customers, loc[p].id))
          => /\ HasId(customers', loc[p].id)
             /\ LET old == RowOf(customers, loc[p].id)
                    new == RowOf(customers', loc[p].id)
                IN  /\ new.loyalty_points = old.loyalty_points
                    /\ new.merchant_id = old.merchant_id
                    /\ new.created_at = old.created_at ]_vars

\* C5 witness: an UpdateCustomer has persisted new profile fields after an
\* increment on the same customer committed between its load and its persist.
C5_Witness ==
    \E p \in Handlers :
        /\ pc[p] = "returned" /\ loc[p].op = "update" /\ loc[p].ok
        /\ loc[p].raced
        /\ HasId(customers, loc[p].id)
        /\ RowOf(customers, loc[p].id).name = loc[p].prof.name
        /\ RowOf(customers, loc[p].id).loyalty_points # loc[p].row.loyalty_points

\* C6 (as claimed): the record a successful CreateCustomer returns has a
\* non-nil id (the caller's when one was supplied), a zero balance and
\* created_at = updated_at.
C6_CreatedRecord ==
    \A p \in Handlers :
        (pc[p] = "returned" /\ loc[p].op = "create" /\ loc[p].ok)
        => /\ loc[p].row.id # NilUUID
           /\ (loc[p].id # NilUUID => loc[p].row.id = loc[p].id)
           /\ loc[p].row.loyalty_points = 0
           /\ loc[p].row.created_at = loc[p].row.updated_at

\* C6 failing input: any accepted input when the clock advances between the
\* two time.Now() calls of CreateCustomer: created_at = 0, updated_at = 1.

\* The listener takes a step.
Moves(from) == pc[Listener] = from /\ pc'[Listener] # from

\* C7 (as claimed): for the message being processed, AddLoyaltyPoints is
\* called iff the payload decodes, event_type is "OrderCreated", customer_id
\* is present and non-empty and floor(total_amount / 10) > 0; and then it is
\* called with that customer_id and points = floor(total_amount / 10).
C7_AwardRule ==
    [][ pc[Listener] = "process" /\ pc'[Listener] # "process"
        => LET f == FloorTenth(cur.total_amount)
               eligible == /\ cur.decodes
                           /\ cur.event_type = "OrderCreated"
                           /\ ~cur.nil /\ cur.customer_id # ""
                           /\ f.positive
               called == lst'.invocations = lst.invocations + 1
           IN  /\ called <=> eligible
               /\ called => /\ loc'[Listener].op = "add"
                            /\ loc'[Listener].id = ParseUUID(cur.customer_id).id
                            /\ f.fits
                            /\ loc'[Listener].pts = f.v ]_vars

\* C7 failing input: {"event_type": "OrderCreated", "payload": {"customer_id":
\* "u1", "total_amount": 30000000000}}: floor(total_amount / 10) is
\* 3000000000, no int32; the conversion gives -2147483648 (no call) or
\* 2147483647 (a call with other points).

\* C8: the listener stops only when its context is cancelled: a read error
\* without cancellation leads to the backoff, the backoff to the select and
\* the select (without cancellation) to the next read, and the processing of
\* a message, whatever the message and whatever the increment returns, leads
\* back to the select.
C8_StopsOnlyOnCancel ==
    [][ /\ pc'[Listener] = "stopped" => cancelled'
        /\ (Moves("read_err") /\ ~cancelled) => pc'[Listener] = "backoff"
        /\ Moves("backoff") => pc'[Listener] = "select"
        /\ (Moves("select") /\ ~cancelled) => pc'[Listener] = "reading"
        /\ Moves("process") => pc'[Listener] \in {"add_reread", "select"}
        /\ Moves("add_reread") => pc'[Listener] = "select" ]_vars

\* C8 witness: after a message was read and processed, a read failed without
\* cancellation and the listener is in its backoff.
C8_Witness ==
    /\ pc[Listener] = "backoff" /\ ~cancelled /\ lst.reads = 1
    /\ lst.log = "error"

\* C9: once the context is cancelled the listener eventually stops; at most
\* one backoff sleep ends after the cancellation, and a read that is pending
\* or started after the cancellation yields no message to process.
C9_StopsAfterCancel ==
    /\ cancelled ~> pc[Listener] = "stopped"
    /\ [](lst.lateSleeps <= 1)
    /\ [][(cancelled /\ Moves("reading")) => pc'[Listener] = "read_err"]_vars

\* C9 witness: the listener has stopped after a cancellation that arrived
\* during its backoff.
C9_Witness ==
    pc[Listener] = "stopped" /\ cancelled /\ lst.lateSleeps = 1

\* C10: the confirmation read of AddLoyaltyPoints changes no row; when it
\* fails or finds no record the call returns an error and 0, and a balance
\* that got the delta keeps it.
C10_NoCompensation ==
    [][ \A p \in Procs :
          (pc[p] = "add_reread" /\ pc'[p] # "add_reread")
          => /\ customers' = customers
             /\ ~HasId(customers, loc[p].id) => ~loc'[p].ok
             /\ ~loc'[p].ok
                   => /\ loc'[p].points = 0
                      /\ loc'[p].err \in {"StorageError",
                                          "customer not found after update"}
             /\ \A r \in customers' : r.loyalty_points = credited'[r.id] ]_vars

\* C10 witness: an AddLoyaltyPoints of -5 on u1 (balance 4) has returned an
\* error from its confirmation read, and the stored balance is -1.
C10_Witness ==
    \E p \in Handlers :
        /\ pc[p] = "returned" /\ loc[p].op = "add" /\ loc[p].applied
        /\ ~loc[p].ok /\ loc[p].err = "StorageError"
        /\ loc[p].id = "u1" /\ loc[p].pts = -5
        /\ HasId(customers, "u1") /\ RowOf(customers, "u1").loyalty_points = -1

\* Values of page and page_size below 1.
BelowOne == {MinInt32, -1, 0}

\* C11: the page a ListCustomers call selects is a page the same call with
\* page < 1 replaced by 1 and page_size < 1 replaced by 10 may get; and on
\* the table the call reads, any page < 1 gives the results of page = 1, any
\* page_size < 1 those of page_size = 10, and (0, 0) those of (1, 10).
C11_ClampedPaging ==
    [][ \A p \in Handlers :
          (pc[p] = "idle" /\ pc'[p] = "list_count")
          => LET l == loc'[p]
                 page1 == IF l.page < 1 THEN 1 ELSE l.page
                 size10 == IF l.pageSize < 1 THEN 10 ELSE l.pageSize
                 pages(pg, ps) == ListPages(customers, l.id, pg, ps, l.search)
             IN  /\ l.rows \in pages(page1, size10)
                 /\ pages(l.page, l.pageSize) = pages(page1, size10)
                 /\ \A b \in BelowOne :
                       /\ pages(b, l.pageSize) = pages(1, l.pageSize)
                       /\ pages(l.page, b) = pages(l.page, 10)
                 /\ pages(0, 0) = pages(1, 10) ]_vars

\* C11 witness: a ListCustomers call with page = 0 and page_size = 0 has
\* returned both records of the merchant, as page 1 of size 10 does.
C11_Witness ==
    \E p \in Handlers :
        /\ pc[p] = "returned" /\ loc[p].op = "list" /\ loc[p].ok
        /\ loc[p].page = 0 /\ loc[p].pageSize = 0
        /\ Len(loc[p].rows) = 2 /\ loc[p].total = 2

\* C12 (as claimed): when List returns, its total is the number of matching
\* records, its page is ordered by created_at, most recent first, is no
\* longer than the total leaves after the offset, and holds only records the
\* total counts, also when other calls ran between its two statements.
C12_PageMatchesTotal ==
    [][ \A p \in Handlers :
          (pc[p] = "list_count" /\ pc'[p] = "returned" /\ loc'[p].ok)
          => LET l == loc'[p]
                 counted == Matching(customers, l.id, l.search)
                 page1 == IF l.page < 1 THEN 1 ELSE l.page
                 size10 == IF l.pageSize < 1 THEN 10 ELSE l.pageSize
                 offset == (page1 - 1) * size10
                 rest == IF l.total > offset THEN l.total - offset ELSE 0
             IN  /\ l.total = Cardinality(counted)
                 /\ Descending(l.rows)
                 /\ Len(l.rows) <= rest
                 /\ \A i \in 1..Len(l.rows) :
                       \E r \in counted : r.id = l.rows[i].id ]_vars

\* C12 failing input: ListCustomers(m1, page 0, page_size 0, "") on a table
\* with two customers of m1, and DeleteCustomer(u1) committing between the
\* SELECT of the page and the SELECT COUNT(*): a page of two, a total of one.

\* C13 (as claimed): an UpdateCustomer that returns success has persisted on
\* a table that holds, once the statement has run, a record with that id
\* carrying the new name, phone, email and address; and an UpdateCustomer
\* whose target is absent when it persists does not return success.
C13_UpdateOfAbsentFails ==
    [][ \A p \in Handlers :
          (pc[p] = "update_persist" /\ pc'[p] = "returned")
          => /\ loc'[p].ok
                => /\ HasId(customers', loc[p].id)
                   /\ LET new == RowOf(customers', loc[p].id)
                      IN  /\ new.name = loc[p].prof.name
                          /\ new.phone = loc[p].prof.phone
                          /\ new.email = loc[p].prof.email
                          /\ new.address = loc[p].prof.address
             /\ ~HasId(customers, loc[p].id) => ~loc'[p].ok ]_vars

\* C13 failing input: UpdateCustomer(u1, new profile) loads u1,
\* DeleteCustomer(u1) commits, then the UPDATE matches no row and returns no
\* error: UpdateCustomer returns the merged record as a success.

\* C14: the number of AddLoyaltyPoints calls the listener has made never
\* exceeds the number of messages it has read; a call is made only by the
\* processing of a message, once; and the processing leaves the message
\* dropped, or waiting only for the call's confirmation read, after which it
\* is dropped and the loop goes on, whether the call failed or not.
C14_AtMostOneCallPerMessage ==
    [][ /\ lst'.invocations <= lst'.reads
        /\ lst'.invocations # lst.invocations
              => Moves("process") /\ lst'.invocations = lst.invocations + 1
        /\ Moves("process")
              => \/ cur' = NoMsg /\ pc'[Listener] = "select"
                 \/ pc'[Listener] = "add_reread"
        /\ Moves("add_reread")
              => cur' = NoMsg /\ pc'[Listener] = "select" ]_vars

\* C14 witness: the one call made for the one message read has failed, the
\* failure is logged, the message is gone and the listener is back at its
\* select.
C14_Witness ==
    /\ pc[Listener] = "select" /\ ~cancelled
    /\ lst.reads = 1 /\ lst.invocations = 1 /\ lst.log = "error"
    /\ loc[Listener].op = "add" /\ ~loc[Listener].ok
    /\ cur = NoMsg

\* C15 (as claimed): the processing of a message that does not decode, or
\* whose event_type is not "OrderCreated", writes no log entry at error
\* level: none, or one at info level.
C15_BenignSkipNotAnError ==
    [][ ( /\ Moves("process")
          /\ (~cur.decodes \/ cur.event_type # "OrderCreated") )
        => /\ lst'.log \in {"", "info"}
           /\ lst'.invocations = lst.invocations ]_vars

\* C15 failing input: a message whose value is not JSON: processMessage logs
\* "Failed to unmarshal event" with l.logger.Error.

====
